---- MODULE Spec2Model ----
(***************************************************************************)
(* Model of the outfithuv record store (src/main.py): two flat-file JSON   *)
(* collections (customers.json, stock.json), the pydantic request schemas  *)
(* and the FastAPI handlers that load the whole collection, change it and  *)
(* write it back.                                                          *)
(*                                                                         *)
(* Spec      every handler runs to completion before the next one starts.  *)
(* SpecConc  two worker threads run customer handlers step by step: open   *)
(*           the file, (create it when missing), run the body and save.    *)
(*                                                                         *)
(* Values.  A JSON value that may be null is a sequence of length <= 1:    *)
(* None is null, Some(v) is v.  A key of a request body is Unset (absent   *)
(* from the JSON object) or Given(x) with x such a value.  A float is      *)
(* modelled by an integer, a timestamp string by a number.                 *)
(***************************************************************************)
EXTENDS Integers, Sequences, FiniteSets, TLC

VARIABLES custFile, stockFile, resp, lastOp,
          pc, req, snap, cresp, lastWriter, overwrote

vars == <<custFile, stockFile, resp, lastOp,
          pc, req, snap, cresp, lastWriter, overwrote>>

concVars == <<pc, req, snap, cresp, lastWriter, overwrote>>

-----------------------------------------------------------------------------
(* Bounds of the input sets *)

MaxPrice == 2
MaxDate == 1

-----------------------------------------------------------------------------
(* Values *)

None == <<>>
Some(v) == <<v>>
Unset == <<>>
Given(x) == <<x>>

CustomerIds == {"c001", "c002"}
StockIds == {"s001"}
Threads == {1, 2}

Dates == 1..MaxDate
\* a date a caller puts in a body: no timestamp the server assigns
ForeignDate == MaxDate + 1

-----------------------------------------------------------------------------
(* Request schemas *)

CustomerUpdateFields == {"name", "clothe", "size", "price", "phone"}
StockFields == {"item", "quantity", "price", "date"}
StockUpdateFields == {"item", "quantity", "price"}

\* Field(..., gt=0) on a value that is present and not null
Gt0(x) == x # Unset /\ x[1] # None /\ x[1][1] > 0

\* a required, non-nullable field
Required(x) == x # Unset /\ x[1] # None

\* Optional[...] = Field(None, gt=0): absent and null pass, a number must be > 0
OptionalGt0(x) == x = Unset \/ x[1] = None \/ x[1][1] > 0

\* value of an optional field of a parsed model: the default None when absent
FieldValue(x) == IF x = Unset THEN None ELSE x[1]

\* the JSON bodies a caller may send to POST /create: with the required keys
\* only, with every key, and with a required key left out or null
CustomerBodies ==
    LET sparse(i, c, p) ==
            [ id |-> Given(Some(i)), name |-> Unset, clothe |-> Given(Some(c)),
              size |-> Given(Some("M")), price |-> Given(Some(p)),
              phone |-> Unset, date |-> Unset ]
        full(i, c, p) ==
            [ sparse(i, c, p) EXCEPT !.name = Given(Some("ann")),
                                     !.size = Given(Some("L")),
                                     !.phone = Given(Some(7)),
                                     !.date = Given(Some(ForeignDate)) ]
    IN  { sparse(i, c, p) :
                    i \in CustomerIds, c \in {<<>>, <<"shirt">>}, p \in 0..MaxPrice }
        \cup { full(i, <<"shirt">>, p) : i \in CustomerIds, p \in 1..MaxPrice }
        \cup { [sparse(i, <<"shirt">>, 1) EXCEPT ![k] = x] :
                    i \in CustomerIds, k \in {"clothe", "size", "price"},
                    x \in {Unset, Given(None)} }

\* class Customer: id, clothe, size required; price required and > 0
ValidCustomer(b) ==
    /\ Required(b.id)
    /\ Required(b.clothe)
    /\ Required(b.size)
    /\ Gt0(b.price)

\* customer.model_dump(exclude=['id'])
CustomerDump(b) ==
    [ name   |-> FieldValue(b.name),
      clothe |-> FieldValue(b.clothe),
      size   |-> FieldValue(b.size),
      price  |-> FieldValue(b.price),
      phone  |-> FieldValue(b.phone),
      date   |-> FieldValue(b.date) ]

\* the keys a body supplies
Supplied(b) == {k \in DOMAIN b : b[k] # Unset}

\* the JSON bodies a caller may send to PUT /edit/{id}: the empty object,
\* one key, several keys; "date" and "id" are keys the schema does not declare
CustomerUpdateBodies ==
    LET empty == [ name |-> Unset, clothe |-> Unset, size |-> Unset, price |-> Unset,
                   phone |-> Unset, date |-> Unset, id |-> Unset ]
    IN  {empty}
        \cup { [empty EXCEPT !.price = Given(x)] :
                    x \in {None} \cup {Some(p) : p \in 0..MaxPrice} }
        \cup { [empty EXCEPT !.clothe = Given(Some(c))] : c \in {<<>>, <<"shirt">>} }
        \cup { [empty EXCEPT !.name = Given(Some("ann")), !.size = Given(Some("L")),
                             !.phone = Given(Some(7))],
               [empty EXCEPT !.date = Given(Some(ForeignDate)),
                             !.id = Given(Some("c002"))] }

\* class CustomerUpdate: every field optional, price > 0 when a number
ValidCustomerUpdate(b) == OptionalGt0(b.price)

\* customer_update.model_dump() without exclude_unset: every declared field,
\* None for those the body left out
CustomerUpdateDumpAll(b) ==
    [k \in CustomerUpdateFields |-> FieldValue(b[k])]

\* customer_update.model_dump(exclude_unset=True): the declared fields the
\* body set, null included
CustomerUpdateDump(b) ==
    [k \in Supplied(b) \cap CustomerUpdateFields |-> b[k][1]]

\* the JSON bodies a caller may send to POST /stock/create
StockBodies ==
    LET sparse(i, q, p) ==
            [ id |-> Given(Some(i)), item |-> Given(Some("silk")),
              quantity |-> Given(Some(q)), price |-> Given(Some(p)), date |-> Unset ]
    IN  { sparse(i, q, p) : i \in StockIds, q \in 0..1, p \in 0..1 }
        \cup { [sparse(i, 1, 1) EXCEPT !.date = Given(Some(ForeignDate))] : i \in StockIds }
        \cup { [sparse(i, 1, 1) EXCEPT !.item = Unset] : i \in StockIds }

\* class Stock: item required, quantity and price required and > 0
ValidStock(b) ==
    /\ Required(b.item)
    /\ Gt0(b.quantity)
    /\ Gt0(b.price)

\* stock.model_dump(exclude=['id']); date defaults to the current time
StockDump(b, now) ==
    [ item     |-> FieldValue(b.item),
      quantity |-> FieldValue(b.quantity),
      price    |-> FieldValue(b.price),
      date     |-> IF b.date = Unset THEN Some(now) ELSE b.date[1] ]

\* the JSON bodies a caller may send to PUT /stock/edit/{id}
StockUpdateBodies ==
    LET empty == [ item |-> Unset, quantity |-> Unset, price |-> Unset, date |-> Unset ]
    IN  {empty}
        \cup { [empty EXCEPT !.quantity = Given(x)] : x \in {None, Some(0), Some(1)} }
        \cup { [empty EXCEPT !.price = Given(x)] : x \in {None, Some(0), Some(1)} }
        \cup { [empty EXCEPT !.item = Given(Some("wool")),
                             !.date = Given(Some(ForeignDate))] }

\* class StockUpdate
ValidStockUpdate(b) == OptionalGt0(b.quantity) /\ OptionalGt0(b.price)

\* stock_update.model_dump(exclude_unset=True)
StockUpdateDump(b) ==
    [k \in Supplied(b) \cap StockUpdateFields |-> b[k][1]]

-----------------------------------------------------------------------------
(* The collection: a JSON object, i.e. a dict in insertion order *)

MissingFile == [exists |-> FALSE, data |-> <<>>]

Keys(data) == {data[i].id : i \in 1..Len(data)}

IndexOf(data, id) == CHOOSE i \in 1..Len(data) : data[i].id = id

\* data[id]
Lookup(data, id) == data[IndexOf(data, id)].rec

\* data[id] = rec: a present key keeps its position, a new key goes last
Put(data, id, rec) ==
    IF id \in Keys(data)
    THEN [data EXCEPT ![IndexOf(data, id)].rec = rec]
    ELSE Append(data, [id |-> id, rec |-> rec])

\* del data[id]
Del(data, id) ==
    LET i == IndexOf(data, id)
    IN  SubSeq(data, 1, i - 1) \o SubSeq(data, i + 1, Len(data))

\* data.values()
Values(data) == [i \in 1..Len(data) |-> data[i].rec]

\* load_data / load_stock_data run in one piece: the mapping returned
LoadData(file) == IF file.exists THEN file.data ELSE <<>>

\* save_data / save_stock_data
SaveData(data) == [exists |-> TRUE, data |-> data]

\* the file a handler that only loads leaves behind: a missing file is
\* created empty
Loaded(file) == SaveData(LoadData(file))

\* for key, value in updated.items(): existing[key] = value
Merge(existing, updated) ==
    [k \in DOMAIN existing \cup DOMAIN updated |->
        IF k \in DOMAIN updated THEN updated[k] ELSE existing[k]]

-----------------------------------------------------------------------------
(* sorted(data.values(), key=lambda x: x.get(sort_by, 0), reverse=...) *)

\* x.get('price', 0)
SortKey(rec) == IF "price" \in DOMAIN rec THEN rec.price ELSE Some(0)

\* comparing None with a number, or None with None, raises TypeError; a list
\* of fewer than two elements is never compared
SortRaises(recs) ==
    Len(recs) >= 2 /\ \E i \in 1..Len(recs) : SortKey(recs[i]) = None

\* position of recs[i] in the result: a stable sort, and reverse=True keeps
\* elements of equal key in their original order
SortedPos(recs, i, reverse) ==
    LET k(j) == SortKey(recs[j])[1]
        before(j) == IF reverse
                     THEN k(j) > k(i) \/ (k(j) = k(i) /\ j < i)
                     ELSE k(j) < k(i) \/ (k(j) = k(i) /\ j < i)
    IN  1 + Cardinality({j \in 1..Len(recs) \ {i} : before(j)})

Sorted(recs, reverse) ==
    [p \in 1..Len(recs) |->
        recs[CHOOSE i \in 1..Len(recs) : SortedPos(recs, i, reverse) = p]]

-----------------------------------------------------------------------------
(* Responses *)

\* what a request got back: the handler, its path or query argument, the HTTP
\* status (422 is the framework's answer to a body the schema rejects, 500
\* its answer to an uncaught exception) and the JSON returned
Response(op, arg, status, out) ==
    [op |-> op, arg |-> arg, status |-> status, out |-> out]

NoResponse == Response("none", "", 0, <<>>)

\* a request a worker thread is serving: the handler and its arguments
Request(op, arg, body) == [op |-> op, arg |-> arg, body |-> body]

NoRequest == Request("none", "", <<>>)

Init ==
    /\ custFile = MissingFile
    /\ stockFile = MissingFile
    /\ resp = NoResponse
    /\ lastOp = [i \in CustomerIds \cup StockIds |-> "none"]
    /\ pc = [t \in Threads |-> "idle"]
    /\ req = [t \in Threads |-> NoRequest]
    /\ snap = [t \in Threads |-> <<>>]
    /\ cresp = [t \in Threads |-> 0]
    /\ lastWriter = 0
    /\ overwrote = [t \in Threads |-> {}]

-----------------------------------------------------------------------------
(* Handler bodies, from the loaded mapping to the outcome: the status, *)
(* whether save_data is reached, the mapping saved and the JSON returned *)

Outcome(status, save, data, out) ==
    [status |-> status, save |-> save, data |-> data, out |-> out]

\* view / view_stock
ViewOn(data) == Outcome(200, FALSE, data, data)

\* view_customer / view_stock_entry
ViewOneOn(data, id) ==
    IF id \in Keys(data)
    THEN Outcome(200, FALSE, data, <<Lookup(data, id)>>)
    ELSE Outcome(404, FALSE, data, <<>>)

\* sort_customer after its two argument checks
SortOn(data, order) ==
    IF SortRaises(Values(data))
    THEN Outcome(500, FALSE, data, <<>>)
    ELSE Outcome(200, FALSE, data, Sorted(Values(data), order = "desc"))

\* create_customer without its test of customer.id in data
CreateCustomerOnOverwrite(data, b, now) ==
    Outcome(201, TRUE,
            Put(data, b.id[1][1], [CustomerDump(b) EXCEPT !.date = Some(now)]), <<>>)

\* create_customer, b a body the Customer schema accepted
CreateCustomerOn(data, b, now) ==
    LET id == b.id[1][1]
        customer_data == [CustomerDump(b) EXCEPT !.date = Some(now)]
    IN  IF id \in Keys(data)
        THEN Outcome(400, FALSE, data, <<>>)
        ELSE Outcome(201, TRUE, Put(data, id, customer_data), <<>>)

\* update_customer that stores the update under an id that is not there
UpdateCustomerOnUpsert(data, id, hasBody, b) ==
    IF ~hasBody
    THEN Outcome(IF id \in Keys(data) THEN 500 ELSE 404, FALSE, data, <<>>)
    ELSE Outcome(200, TRUE,
                 Put(data, id,
                     IF id \in Keys(data)
                     THEN Merge(Lookup(data, id), CustomerUpdateDump(b))
                     ELSE CustomerUpdateDump(b)),
                 <<>>)

\* update_customer, b a body the CustomerUpdate schema accepted; without a
\* body customer_update is None and None.model_dump raises AttributeError
UpdateCustomerOn(data, id, hasBody, b) ==
    IF id \notin Keys(data)
    THEN Outcome(404, FALSE, data, <<>>)
    ELSE IF ~hasBody
    THEN Outcome(500, FALSE, data, <<>>)
    ELSE LET existing_customer_info == Lookup(data, id)
             updated_customer_info == CustomerUpdateDump(b)
         IN  Outcome(200, TRUE,
                     Put(data, id, Merge(existing_customer_info, updated_customer_info)),
                     <<>>)

\* a delete that saves the mapping without removing the key
DeleteOnKeep(data, id) ==
    IF id \notin Keys(data)
    THEN Outcome(404, FALSE, data, <<>>)
    ELSE Outcome(200, TRUE, data, <<>>)

\* delete_customer / delete_stock
DeleteOn(data, id) ==
    IF id \notin Keys(data)
    THEN Outcome(404, FALSE, data, <<>>)
    ELSE Outcome(200, TRUE, Del(data, id), <<>>)

\* create_stock, b a body the Stock schema accepted: the schema declares no
\* id, so reading stock.id raises AttributeError
CreateStockOn(data, b, now) ==
    IF "id" \notin StockFields
    THEN Outcome(500, FALSE, data, <<>>)
    ELSE LET id == b.id[1][1]
         IN  IF id \in Keys(data)
             THEN Outcome(400, FALSE, data, <<>>)
             ELSE Outcome(201, TRUE, Put(data, id, StockDump(b, now)), <<>>)

\* update_stock, b a body the StockUpdate schema accepted
UpdateStockOn(data, id, hasBody, b) ==
    IF id \notin Keys(data)
    THEN Outcome(404, FALSE, data, <<>>)
    ELSE IF ~hasBody
    THEN Outcome(500, FALSE, data, <<>>)
    ELSE LET existing_stock == Lookup(data, id)
             updated_stock == StockUpdateDump(b)
         IN  Outcome(200, TRUE,
                     Put(data, id, Merge(existing_stock, updated_stock)), <<>>)

\* the file after a handler that loaded it and ended with outcome r
FileAfter(file, r) == IF r.save THEN SaveData(r.data) ELSE Loaded(file)

\* a request answered before the handler is entered: the file is not opened
Refused(file, status) ==
    [file |-> file, status |-> status, out |-> <<>>, saved |-> FALSE]

\* a request the handler served: load, outcome r, save when r says so
Handled(file, r) ==
    [file |-> FileAfter(file, r), status |-> r.status, out |-> r.out, saved |-> r.save]

-----------------------------------------------------------------------------
(* The handlers run in one piece, on the file of their collection *)

\* view / view_stock
View(file) == Handled(file, ViewOn(LoadData(file)))

\* view_customer / view_stock_entry
ViewOne(file, id) == Handled(file, ViewOneOn(LoadData(file), id))

\* sort_customer
SortCustomer(file, sort_by, order) ==
    IF sort_by \notin {"price"} \/ order \notin {"asc", "desc"}
    THEN Refused(file, 400)
    ELSE Handled(file, SortOn(LoadData(file), order))

\* create_customer: the framework parses the body into Customer first
CreateCustomer(file, customer, now) ==
    IF ~ValidCustomer(customer)
    THEN Refused(file, 422)
    ELSE Handled(file, CreateCustomerOn(LoadData(file), customer, now))

\* update_customer: the framework parses a body into CustomerUpdate first
UpdateCustomer(file, customer_id, hasBody, customer_update) ==
    IF hasBody /\ ~ValidCustomerUpdate(customer_update)
    THEN Refused(file, 422)
    ELSE Handled(file, UpdateCustomerOn(LoadData(file), customer_id, hasBody,
                                       customer_update))

\* delete_customer / delete_stock
Delete(file, id) == Handled(file, DeleteOn(LoadData(file), id))

\* create_stock: the framework parses the body into Stock first
CreateStock(file, stock, now) ==
    IF ~ValidStock(stock)
    THEN Refused(file, 422)
    ELSE Handled(file, CreateStockOn(LoadData(file), stock, now))

\* update_stock: the framework parses a body into StockUpdate first
UpdateStock(file, stock_id, hasBody, stock_update) ==
    IF hasBody /\ ~ValidStockUpdate(stock_update)
    THEN Refused(file, 422)
    ELSE Handled(file, UpdateStockOn(LoadData(file), stock_id, hasBody, stock_update))

\* the last successful create or delete of each id
Recorded(op, id, h) ==
    IF h.saved THEN [lastOp EXCEPT ![id] = op] ELSE lastOp

-----------------------------------------------------------------------------
(* Spec: one request at a time *)

view ==
    LET h == View(custFile)
    IN  /\ custFile' = h.file
        /\ resp' = Response("view", "", h.status, h.out)
        /\ UNCHANGED <<stockFile, lastOp, concVars>>

view_customer(customer_id) ==
    LET h == ViewOne(custFile, customer_id)
    IN  /\ custFile' = h.file
        /\ resp' = Response("view_customer", customer_id, h.status, h.out)
        /\ UNCHANGED <<stockFile, lastOp, concVars>>

sort_customer(sort_by, order) ==
    LET h == SortCustomer(custFile, sort_by, order)
    IN  /\ custFile' = h.file
        /\ resp' = Response("sort_customer", order, h.status, h.out)
        /\ UNCHANGED <<stockFile, lastOp, concVars>>

create_customer(customer, now) ==
    LET h == CreateCustomer(custFile, customer, now)
    IN  /\ custFile' = h.file
        /\ resp' = Response("create_customer", customer.id[1][1], h.status, h.out)
        /\ lastOp' = Recorded("create", customer.id[1][1], h)
        /\ UNCHANGED <<stockFile, concVars>>

update_customer(customer_id, hasBody, customer_update) ==
    LET h == UpdateCustomer(custFile, customer_id, hasBody, customer_update)
    IN  /\ custFile' = h.file
        /\ resp' = Response("update_customer", customer_id, h.status, h.out)
        /\ UNCHANGED <<stockFile, lastOp, concVars>>

delete_customer(customer_id) ==
    LET h == Delete(custFile, customer_id)
    IN  /\ custFile' = h.file
        /\ resp' = Response("delete_customer", customer_id, h.status, h.out)
        /\ lastOp' = Recorded("delete", customer_id, h)
        /\ UNCHANGED <<stockFile, concVars>>

view_stock ==
    LET h == View(stockFile)
    IN  /\ stockFile' = h.file
        /\ resp' = Response("view_stock", "", h.status, h.out)
        /\ UNCHANGED <<custFile, lastOp, concVars>>

view_stock_entry(stock_id) ==
    LET h == ViewOne(stockFile, stock_id)
    IN  /\ stockFile' = h.file
        /\ resp' = Response("view_stock_entry", stock_id, h.status, h.out)
        /\ UNCHANGED <<custFile, lastOp, concVars>>

create_stock(stock, now) ==
    LET h == CreateStock(stockFile, stock, now)
    IN  /\ stockFile' = h.file
        /\ resp' = Response("create_stock", stock.id[1][1], h.status, h.out)
        /\ lastOp' = Recorded("create", stock.id[1][1], h)
        /\ UNCHANGED <<custFile, concVars>>

update_stock(stock_id, hasBody, stock_update) ==
    LET h == UpdateStock(stockFile, stock_id, hasBody, stock_update)
    IN  /\ stockFile' = h.file
        /\ resp' = Response("update_stock", stock_id, h.status, h.out)
        /\ UNCHANGED <<custFile, lastOp, concVars>>

delete_stock(stock_id) ==
    LET h == Delete(stockFile, stock_id)
    IN  /\ stockFile' = h.file
        /\ resp' = Response("delete_stock", stock_id, h.status, h.out)
        /\ lastOp' = Recorded("delete", stock_id, h)
        /\ UNCHANGED <<custFile, concVars>>

ViewStep == view
ViewCustomerStep == \E i \in CustomerIds : view_customer(i)
SortCustomerStep ==
    \E f \in {"price", "name"}, o \in {"asc", "desc", "up"} : sort_customer(f, o)
CreateCustomerStep == \E b \in CustomerBodies, now \in Dates : create_customer(b, now)
UpdateCustomerStep ==
    \E i \in CustomerIds :
        \/ \E b \in CustomerUpdateBodies : update_customer(i, TRUE, b)
        \/ update_customer(i, FALSE, CHOOSE b \in CustomerUpdateBodies : Supplied(b) = {})
DeleteCustomerStep == \E i \in CustomerIds : delete_customer(i)
ViewStockStep == view_stock
ViewStockEntryStep == \E i \in StockIds : view_stock_entry(i)
CreateStockStep == \E b \in StockBodies, now \in Dates : create_stock(b, now)
UpdateStockStep ==
    \E i \in StockIds :
        \/ \E b \in StockUpdateBodies : update_stock(i, TRUE, b)
        \/ update_stock(i, FALSE, CHOOSE b \in StockUpdateBodies : Supplied(b) = {})
DeleteStockStep == \E i \in StockIds : delete_stock(i)

Next ==
    \/ ViewStep
    \/ ViewCustomerStep
    \/ SortCustomerStep
    \/ CreateCustomerStep
    \/ UpdateCustomerStep
    \/ DeleteCustomerStep
    \/ ViewStockStep
    \/ ViewStockEntryStep
    \/ CreateStockStep
    \/ UpdateStockStep
    \/ DeleteStockStep

Spec == Init /\ [][Next]_vars

-----------------------------------------------------------------------------
(* SpecConc: the customer handlers on two threads of the server's pool.   *)
(* pc[t]: "idle" and "done" between requests, "open" before load_data's   *)
(* open(), "missing" inside its except branch, "run" after it returned.   *)
(* History: lastWriter is the thread whose save_data wrote the file last, *)
(* overwrote[t] the threads that wrote it since t read it.                *)

ReadOps == {"view", "view_customer", "sort_customer"}

\* the requests the threads serve
Requests ==
    {Request("view", "", <<>>), Request("sort_customer", "asc", <<>>)}
    \cup {Request("view_customer", i, <<>>) : i \in CustomerIds}
    \cup {Request("delete_customer", i, <<>>) : i \in CustomerIds}
    \cup {Request("create_customer", b.id[1][1], b) :
              b \in {c \in CustomerBodies :
                        /\ Supplied(c) = {"id", "clothe", "size", "price"}
                        /\ c.clothe = Given(Some(<<"shirt">>))
                        /\ c.price \in {Given(Some(0)), Given(Some(1))}}}
    \cup {Request("update_customer", i, b) :
              i \in CustomerIds,
              b \in {u \in CustomerUpdateBodies :
                        /\ Supplied(u) = {"price"}
                        /\ u.price = Given(Some(MaxPrice))}}

\* the checks made on the arguments before the handler loads anything: the
\* schema of the body, the two tests of sort_customer
Rejected(r) ==
    CASE r.op = "create_customer" /\ ~ValidCustomer(r.body) -> 422
      [] r.op = "update_customer" /\ ~ValidCustomerUpdate(r.body) -> 422
      [] r.op = "sort_customer" /\ r.arg \notin {"asc", "desc"} -> 400
      [] OTHER -> 0

\* the handler body of thread t working on the file as it is when it saves
RunDataFresh(t) == IF custFile.exists THEN custFile.data ELSE snap[t]

\* the mapping the handler body of thread t works on: its own load
RunData(t) == snap[t]

\* the handler body of request r on the mapping data
HandlerOn(r, data) ==
    CASE r.op = "view" -> ViewOn(data)
      [] r.op = "view_customer" -> ViewOneOn(data, r.arg)
      [] r.op = "sort_customer" -> SortOn(data, r.arg)
      [] r.op = "create_customer" -> CreateCustomerOn(data, r.body, 1)
      [] r.op = "update_customer" -> UpdateCustomerOn(data, r.arg, TRUE, r.body)
      [] r.op = "delete_customer" -> DeleteOn(data, r.arg)

\* thread t takes a request; one the argument checks reject is answered at once
Begin(t) ==
    /\ pc[t] \in {"idle", "done"}
    /\ \E r \in Requests :
          /\ req' = [req EXCEPT ![t] = r]
          /\ IF Rejected(r) # 0
             THEN /\ pc' = [pc EXCEPT ![t] = "done"]
                  /\ cresp' = [cresp EXCEPT ![t] = Rejected(r)]
             ELSE /\ pc' = [pc EXCEPT ![t] = "open"]
                  /\ cresp' = [cresp EXCEPT ![t] = 0]
    /\ snap' = [snap EXCEPT ![t] = <<>>]
    /\ overwrote' = [overwrote EXCEPT ![t] = {}]
    /\ UNCHANGED <<custFile, stockFile, resp, lastOp, lastWriter>>

\* load_data: open() and json.load, or FileNotFoundError
Open(t) ==
    /\ pc[t] = "open"
    /\ IF custFile.exists
       THEN /\ snap' = [snap EXCEPT ![t] = custFile.data]
            /\ pc' = [pc EXCEPT ![t] = "run"]
       ELSE /\ snap' = snap
            /\ pc' = [pc EXCEPT ![t] = "missing"]
    /\ overwrote' = [overwrote EXCEPT ![t] = {}]
    /\ UNCHANGED <<custFile, stockFile, resp, lastOp, req, cresp, lastWriter>>

\* load_data, except FileNotFoundError: save_data({}); return {}
CreateMissing(t) ==
    /\ pc[t] = "missing"
    /\ custFile' = SaveData(<<>>)
    /\ snap' = [snap EXCEPT ![t] = <<>>]
    /\ pc' = [pc EXCEPT ![t] = "run"]
    /\ lastWriter' = t
    /\ overwrote' = [u \in Threads |-> IF u = t THEN {} ELSE overwrote[u] \cup {t}]
    /\ UNCHANGED <<stockFile, resp, lastOp, req, cresp>>

\* the rest of the handler, up to its save_data and its response
Run(t) ==
    /\ pc[t] = "run"
    /\ LET r == HandlerOn(req[t], RunData(t))
       IN  /\ cresp' = [cresp EXCEPT ![t] = r.status]
           /\ IF r.save
              THEN /\ custFile' = SaveData(r.data)
                   /\ lastWriter' = t
                   /\ overwrote' = [u \in Threads |->
                                       IF u = t THEN overwrote[u] ELSE overwrote[u] \cup {t}]
              ELSE UNCHANGED <<custFile, lastWriter, overwrote>>
    /\ pc' = [pc EXCEPT ![t] = "done"]
    /\ UNCHANGED <<stockFile, resp, lastOp, req, snap>>

BeginStep == \E t \in Threads : Begin(t)
OpenStep == \E t \in Threads : Open(t)
CreateMissingStep == \E t \in Threads : CreateMissing(t)
RunStep == \E t \in Threads : Run(t)

NextConc ==
    \/ BeginStep
    \/ OpenStep
    \/ CreateMissingStep
    \/ RunStep

SpecConc == Init /\ [][NextConc]_vars

-----------------------------------------------------------------------------
(* Properties of Spec.  A property that holds of one handler is stated on *)
(* every reachable state, for every request the handler can be sent in it: *)
(* h is what the handler answers and the file it leaves, as the action of  *)
(* the handler applies it.                                                 *)

\* C1, as stated: create_customer with an id that is already stored answers
\* 400 (Conflict) whatever the body, valid or not, and leaves the stored
\* collection as it was.
C1_DuplicateAlwaysConflict ==
    [][\A b \in CustomerBodies, now \in Dates :
          (b.id[1][1] \in Keys(custFile.data) /\ create_customer(b, now))
              => (resp'.status = 400 /\ custFile' = custFile)]_vars

\* C1, amended: create_customer with an id that is already stored answers
\* 400 (Conflict) when the body satisfies the Customer schema and 422
\* (ValidationError) when it does not; in both cases the stored collection
\* is left as it was.
C1_DuplicateCreate ==
    \A b \in CustomerBodies, now \in Dates :
        b.id[1][1] \in Keys(custFile.data) =>
            LET h == CreateCustomer(custFile, b, now)
            IN  /\ h.status = IF ValidCustomer(b) THEN 400 ELSE 422
                /\ h.file = custFile

\* a create of a stored id was answered with Conflict
C1_Witness ==
    /\ resp.op = "create_customer"
    /\ resp.status = 400
    /\ resp.arg \in Keys(custFile.data)

\* C2, as stated: every stored record has price > 0 and every stored stock
\* record has quantity > 0, also after updates that supply the field.
C2_PositivePriceQuantity ==
    /\ \A n \in 1..Len(custFile.data) :
          LET rec == custFile.data[n].rec
          IN  rec.price # None /\ rec.price[1] > 0
    /\ \A n \in 1..Len(stockFile.data) :
          LET rec == stockFile.data[n].rec
          IN  /\ rec.price # None /\ rec.price[1] > 0
              /\ rec.quantity # None /\ rec.quantity[1] > 0

\* C3: an update of a stored id with a body the update schema accepts
\* succeeds, and the record read back has the supplied value in every
\* supplied field and its old value in every other field; the key, its
\* place in the collection, the date and the other records stay whatever the
\* body holds, and the empty body leaves the stored collection as it was.
C3_UpdateFrame ==
    /\ \A i \in Keys(custFile.data), b \in CustomerUpdateBodies :
          ValidCustomerUpdate(b) =>
            LET h == UpdateCustomer(custFile, i, TRUE, b)
                old == Lookup(custFile.data, i)
                got == ViewOne(h.file, i)
            IN  /\ h.status = 200
                /\ [n \in 1..Len(h.file.data) |-> h.file.data[n].id]
                      = [n \in 1..Len(custFile.data) |-> custFile.data[n].id]
                /\ got.status = 200
                /\ DOMAIN got.out[1] = DOMAIN old
                /\ \A k \in CustomerUpdateFields :
                      got.out[1][k] = IF b[k] # Unset THEN b[k][1] ELSE old[k]
                /\ got.out[1].date = old.date
                /\ \A j \in Keys(custFile.data) \ {i} :
                      Lookup(h.file.data, j) = Lookup(custFile.data, j)
                /\ (Supplied(b) = {}) => h.file = custFile
    /\ \A i \in Keys(stockFile.data), b \in StockUpdateBodies :
          ValidStockUpdate(b) =>
            LET h == UpdateStock(stockFile, i, TRUE, b)
                old == Lookup(stockFile.data, i)
                got == ViewOne(h.file, i)
            IN  /\ h.status = 200
                /\ got.status = 200
                /\ DOMAIN got.out[1] = DOMAIN old
                /\ \A k \in StockUpdateFields :
                      got.out[1][k] = IF b[k] # Unset THEN b[k][1] ELSE old[k]
                /\ got.out[1].date = old.date
                /\ (Supplied(b) = {}) => h.file = stockFile

\* an update went through on a record whose price an update set to null and
\* whose clothe and date are still those of its creation
C3_Witness ==
    /\ resp.op = "update_customer"
    /\ resp.status = 200
    /\ resp.arg \in Keys(custFile.data)
    /\ LET rec == Lookup(custFile.data, resp.arg)
       IN  /\ rec.price = None
           /\ rec.clothe = Some(<<"shirt">>)
           /\ rec.size = Some("L")
           /\ rec.date \in {Some(d) : d \in Dates}

\* C4: one request at a time, an id is stored exactly when its last
\* successful create or delete was a create: only a successful create makes
\* an absent id present and it does, only a successful delete makes a present
\* id absent and it does, and reading one id succeeds exactly when it is
\* stored (so it answers 404 after a delete).
C4_Lifecycle ==
    [][/\ \A i \in CustomerIds :
            LET was == i \in Keys(custFile.data)
                is == i \in Keys(custFile'.data)
            IN  /\ (~was /\ is) =>
                      resp' = Response("create_customer", i, 201, <<>>)
                /\ (was /\ ~is) =>
                      resp' = Response("delete_customer", i, 200, <<>>)
                /\ resp' = Response("create_customer", i, 201, <<>>) => (~was /\ is)
                /\ resp' = Response("delete_customer", i, 200, <<>>) => (was /\ ~is)
                /\ (resp'.op = "view_customer" /\ resp'.arg = i) =>
                      (resp'.status = IF is THEN 200 ELSE 404)
                /\ is <=> lastOp'[i] = "create"
       /\ \A i \in StockIds :
            LET was == i \in Keys(stockFile.data)
                is == i \in Keys(stockFile'.data)
            IN  /\ (~was /\ is) =>
                      resp' = Response("create_stock", i, 201, <<>>)
                /\ (was /\ ~is) =>
                      resp' = Response("delete_stock", i, 200, <<>>)
                /\ resp' = Response("create_stock", i, 201, <<>>) => (~was /\ is)
                /\ resp' = Response("delete_stock", i, 200, <<>>) => (was /\ ~is)
                /\ (resp'.op = "view_stock_entry" /\ resp'.arg = i) =>
                      (resp'.status = IF is THEN 200 ELSE 404)
                /\ is <=> lastOp'[i] = "create"
      ]_vars

\* a customer that was created and then deleted is read and not found
C4_Witness ==
    /\ resp.op = "view_customer"
    /\ resp.status = 404
    /\ lastOp[resp.arg] = "delete"

\* C5, as stated: reading, updating and deleting an id that is not stored
\* each answer 404 (NotFound), for every body sent with the update, valid or
\* not, and leave every record as it was.
C5_AbsentAlwaysNotFound ==
    [][/\ \A i \in CustomerIds \ Keys(custFile.data) :
            ( \/ view_customer(i)
              \/ delete_customer(i)
              \/ \E b \in CustomerUpdateBodies : update_customer(i, TRUE, b) )
            => (resp'.status = 404 /\ custFile'.data = custFile.data)
       /\ \A i \in StockIds \ Keys(stockFile.data) :
            ( \/ view_stock_entry(i)
              \/ delete_stock(i)
              \/ \E b \in StockUpdateBodies : update_stock(i, TRUE, b) )
            => (resp'.status = 404 /\ stockFile'.data = stockFile.data)
      ]_vars

\* C5, amended: reading and deleting an id that is not stored answer 404
\* (NotFound); updating it answers 404 when the request has no body or a
\* body the update schema accepts, and 422 (ValidationError) when the schema
\* rejects the body; in every case every record is left as it was.
C5_AbsentId ==
    /\ \A i \in CustomerIds \ Keys(custFile.data) :
          /\ LET h == ViewOne(custFile, i)
             IN  h.status = 404 /\ h.file.data = custFile.data
          /\ LET h == Delete(custFile, i)
             IN  h.status = 404 /\ h.file.data = custFile.data
          /\ \A hasBody \in BOOLEAN, b \in CustomerUpdateBodies :
                LET h == UpdateCustomer(custFile, i, hasBody, b)
                IN  /\ h.status =
                          IF hasBody /\ ~ValidCustomerUpdate(b) THEN 422 ELSE 404
                    /\ h.file.data = custFile.data
    /\ \A i \in StockIds \ Keys(stockFile.data) :
          /\ LET h == ViewOne(stockFile, i)
             IN  h.status = 404 /\ h.file.data = stockFile.data
          /\ LET h == Delete(stockFile, i)
             IN  h.status = 404 /\ h.file.data = stockFile.data
          /\ \A hasBody \in BOOLEAN, b \in StockUpdateBodies :
                LET h == UpdateStock(stockFile, i, hasBody, b)
                IN  /\ h.status =
                          IF hasBody /\ ~ValidStockUpdate(b) THEN 422 ELSE 404
                    /\ h.file.data = stockFile.data

\* an update of a customer id that is not stored, beside a stored one, was
\* answered with NotFound
C5_Witness ==
    /\ resp.op = "update_customer"
    /\ resp.status = 404
    /\ resp.arg \notin Keys(custFile.data)
    /\ Len(custFile.data) = 1

\* C6, as stated: create_stock with an id that is not stored and a valid
\* body answers 201 and stores under the id a record with a date whose item,
\* quantity and price are those of the body and which has no id key; reading
\* the id afterwards returns that record.
C6_CreateStockSucceeds ==
    [][\A b \in StockBodies, now \in Dates :
          ( /\ ValidStock(b)
            /\ b.id[1][1] \notin Keys(stockFile.data)
            /\ create_stock(b, now) )
          => /\ resp'.status = 201
             /\ LET got == ViewOne(stockFile', b.id[1][1])
                IN  /\ got.status = 200
                    /\ got.out[1].item = b.item[1]
                    /\ got.out[1].quantity = b.quantity[1]
                    /\ got.out[1].price = b.price[1]
                    /\ got.out[1].date # None
                    /\ "id" \notin DOMAIN got.out[1]]_vars

\* C7, as stated: on every reachable customer collection sort_customer with
\* order asc or desc answers 200 with every stored body once, prices
\* non-decreasing for asc and non-increasing for desc (a body without price
\* counting as 0), bodies of equal price in their stored order; any other
\* order or sort field answers 400.
C7_SortByPrice ==
    [][\A f \in {"price", "name"}, o \in {"asc", "desc", "up"} :
          sort_customer(f, o) =>
            IF f # "price" \/ o \notin {"asc", "desc"}
            THEN resp'.status = 400
            ELSE /\ resp'.status = 200
                 /\ LET recs == Values(LoadData(custFile))
                        out == resp'.out
                        N == Len(recs)
                        price(x) == IF "price" \in DOMAIN x THEN x.price[1] ELSE 0
                    IN  /\ Len(out) = N
                        /\ \E perm \in [1..N -> 1..N] :
                              /\ \A m, n \in 1..N : m # n => perm[m] # perm[n]
                              /\ \A n \in 1..N : out[n] = recs[perm[n]]
                              /\ \A m, n \in 1..N :
                                    m < n =>
                                      /\ o = "asc" => price(out[m]) <= price(out[n])
                                      /\ o = "desc" => price(out[m]) >= price(out[n])
                                      /\ price(out[m]) = price(out[n])
                                            => perm[m] < perm[n]]_vars

\* C8, as stated: every stored customer record has a clothe that is a
\* non-empty list of strings.
C8_ClotheNonEmpty ==
    \A n \in 1..Len(custFile.data) :
        LET rec == custFile.data[n].rec
        IN  rec.clothe # None /\ Len(rec.clothe[1]) >= 1

-----------------------------------------------------------------------------
(* Properties of SpecConc *)

\* C9: when two threads have both answered 201 to creates of distinct ids,
\* and the one that saved last had read the file, without the other's id in
\* it, before the other saved, the file holds the last saver's record and
\* not the other's: the first writer's create is lost although it was
\* answered with success.
C9_LostUpdate ==
    \A t, u \in Threads :
        ( /\ t # u
          /\ pc[t] = "done" /\ pc[u] = "done"
          /\ req[t].op = "create_customer" /\ req[u].op = "create_customer"
          /\ cresp[t] = 201 /\ cresp[u] = 201
          /\ req[t].arg # req[u].arg
          /\ lastWriter = u
          /\ t \in overwrote[u]
          /\ req[t].arg \notin Keys(snap[u]) )
        => /\ req[t].arg \notin Keys(custFile.data)
           /\ req[u].arg \in Keys(custFile.data)

\* the interleaving exists: both creates answered 201, the second saver had
\* read before the first saved, and the first one's id is not in the file
C9_Witness ==
    \E t, u \in Threads :
        /\ t # u
        /\ pc[t] = "done" /\ pc[u] = "done"
        /\ req[t].op = "create_customer" /\ req[u].op = "create_customer"
        /\ cresp[t] = 201 /\ cresp[u] = 201
        /\ req[t].arg # req[u].arg
        /\ lastWriter = u
        /\ t \in overwrote[u]
        /\ req[t].arg \notin Keys(snap[u])
        /\ req[t].arg \notin Keys(custFile.data)

\* C10, as stated: no step of a thread that serves view, view_customer or
\* sort_customer changes the records stored in the file, whatever the other
\* thread does and also when the file did not exist when the read began.
C10_ReadsKeepRecords ==
    [][\A t \in Threads :
          (req'[t].op \in ReadOps /\ pc'[t] # pc[t])
              => custFile'.data = custFile.data]_vars

====
